---------------------------- MODULE Spec2Model ----------------------------
(***************************************************************************)
(* Model of the incremental SEARCH/REPLACE diff applicator                 *)
(* (src/core/assistant-message/diff/matching-strategies.ts and helpers).   *)
(* Texts are sequences of one-character strings; an offset o of the source *)
(* (0-based) denotes the element o+1 of the sequence.                      *)
(***************************************************************************)
EXTENDS Integers, Sequences, FiniteSets, TLC

VARIABLES
    segments,          \* the pieces the diff text was assembled from (input only)
    originalContent,   \* argument originalContent
    diffContent,       \* argument diffContent
    isFinal,           \* argument isFinal
    lines,             \* diffContent.split("\n") after the partial-marker strip
    lineNo,            \* position of the for-loop in lines (1-based)
    pc,                \* "start", "loop", "done" (returned) or "error" (thrown)
    st,                \* the locals of constructNewFileContent
    hist,              \* history of the call, for stating properties
    callSearch,        \* argument searchContent (pattern) of a matcher called on its own
    callStart,         \* argument startIndex (startPos) of that call
    matchResult        \* the matcher called and the range it returned

vars == <<segments, originalContent, diffContent, isFinal, lines, lineNo, pc, st, hist,
          callSearch, callStart, matchResult>>

\* the variables of a matcher called on its own, and those of the processor
matcherVars == <<callSearch, callStart, matchResult>>
processorVars == <<segments, diffContent, isFinal, lines, lineNo, pc, st, hist>>

(***************************************************************************)
(* Bounds of the model.                                                    *)
(***************************************************************************)
MaxOrigLen == 4
MaxSegs == 2

NL == "\n"
SP == " "
Undefined == "undefined"

SEARCH_MARKER == <<"<", "<", "<", "<", "<", "<", "<", " ", "S", "E", "A", "R", "C", "H">>
SEPARATOR_MARKER == <<"=", "=", "=", "=", "=", "=", "=">>
REPLACE_MARKER == <<">", ">", ">", ">", ">", ">", ">", " ", "R", "E", "P", "L", "A", "C", "E">>

Max(a, b) == IF a >= b THEN a ELSE b
Min(a, b) == IF a <= b THEN a ELSE b

(***************************************************************************)
(* JavaScript string primitives.                                           *)
(***************************************************************************)
\* String.prototype.slice(start, end): negative arguments count from the end,
\* arguments are clamped to [0, length], an empty range gives "".
Slice(s, start, end) ==
    LET n == Len(s)
        from == IF start < 0 THEN Max(n + start, 0) ELSE Min(start, n)
        to == IF end < 0 THEN Max(n + end, 0) ELSE Min(end, n)
    IN  IF from >= to THEN <<>> ELSE SubSeq(s, from + 1, to)

\* s[i]: the character at offset i, undefined outside the string.
CharAt(s, i) == IF i >= 0 /\ i < Len(s) THEN s[i + 1] ELSE Undefined

\* String.prototype.startsWith(prefix)
StartsWith(s, p) == Len(p) <= Len(s) /\ SubSeq(s, 1, Len(p)) = p

\* String.prototype.indexOf(pattern): -1 when absent.
RECURSIVE IndexOfFrom(_, _, _)
IndexOfFrom(s, p, i) ==
    IF i + Len(p) > Len(s) THEN -1
    ELSE IF SubSeq(s, i + 1, i + Len(p)) = p THEN i
    ELSE IndexOfFrom(s, p, i + 1)

IndexOf(s, p) == IndexOfFrom(s, p, 0)

\* String.prototype.includes(pattern)
Includes(s, p) == IndexOf(s, p) # -1

\* String.prototype.split("\n"): always at least one (possibly empty) line.
RECURSIVE SplitFrom(_, _, _)
SplitFrom(s, i, cur) ==
    IF i > Len(s) THEN <<cur>>
    ELSE IF s[i] = NL THEN <<cur>> \o SplitFrom(s, i + 1, <<>>)
    ELSE SplitFrom(s, i + 1, Append(cur, s[i]))

Split(s) == SplitFrom(s, 1, <<>>)

\* Array.prototype.join("\n")
RECURSIVE Join(_)
Join(ls) ==
    IF Len(ls) = 0 THEN <<>>
    ELSE IF Len(ls) = 1 THEN ls[1]
    ELSE ls[1] \o <<NL>> \o Join(Tail(ls))

IsSpace(c) == c = SP \/ c = NL

\* String.prototype.trimEnd()
RECURSIVE TrimEnd(_)
TrimEnd(s) ==
    IF Len(s) > 0 /\ IsSpace(s[Len(s)]) THEN TrimEnd(SubSeq(s, 1, Len(s) - 1)) ELSE s

\* String.prototype.trimStart()
RECURSIVE TrimStart(_)
TrimStart(s) ==
    IF Len(s) > 0 /\ IsSpace(s[1]) THEN TrimStart(Tail(s)) ELSE s

\* String.prototype.trim()
Trim(s) == TrimStart(TrimEnd(s))

\* getLineNumberFromOffset(content, offset): newlines in content.slice(0, offset)
getLineNumberFromOffset(content, offset) ==
    LET textUpToOffset == Slice(content, 0, offset)
    IN  Cardinality({i \in 1..Len(textUpToOffset) : textUpToOffset[i] = NL})

(***************************************************************************)
(* StringBuilder: the text built so far and the builder's own length.      *)
(***************************************************************************)
\* StringBuilder.appendSlice(source, start, end)
appendSlice(text, source, start, end) ==
    IF start < end THEN text \o Slice(source, start, end) ELSE text

\* StringBuilder.appendLine(str)
appendLine(text, str) == text \o str \o <<NL>>

(***************************************************************************)
(* ExactMatch: boyerMooreSearch(text, pattern, startPos).                  *)
(***************************************************************************)
\* badCharTable: for i in 0..m-2, table[pattern[i]] = m-1-i (last write wins)
BadCharShift(pattern, c) ==
    LET m == Len(pattern)
        occ == {i \in 0..(m - 2) : pattern[i + 1] = c}
    IN  IF occ = {} THEN m
        ELSE LET last == CHOOSE i \in occ : \A k \in occ : k <= i
             IN  m - 1 - last

\* the right-to-left comparison: the index j at which the inner loop stops
RECURSIVE BMScan(_, _, _, _)
BMScan(text, pattern, offset, j) ==
    IF j >= 0 /\ pattern[j + 1] = CharAt(text, offset + j)
    THEN BMScan(text, pattern, offset, j - 1)
    ELSE j

RECURSIVE BMLoop(_, _, _)
BMLoop(text, pattern, offset) ==
    IF offset > Len(text) - Len(pattern) THEN -1
    ELSE LET j == BMScan(text, pattern, offset, Len(pattern) - 1)
         IN  IF j < 0 THEN offset
             ELSE BMLoop(text, pattern,
                         offset + Max(1, BadCharShift(pattern, CharAt(text, offset + j))))

boyerMooreSearch(text, pattern, startPos) ==
    IF Len(pattern) = 0 THEN startPos
    ELSE IF Len(pattern) > Len(text) - startPos THEN -1
    ELSE BMLoop(text, pattern, startPos)

(***************************************************************************)
(* Line-based matchers (direct scans, used below the LineIndex threshold). *)
(***************************************************************************)
NoMatch == <<-1, -1>>

\* "Trim trailing empty line if exists"
PopTrailingEmpty(ls) ==
    IF Len(ls) > 0 /\ ls[Len(ls)] = <<>> THEN SubSeq(ls, 1, Len(ls) - 1) ELSE ls

\* "Find the line number where startIndex falls"
RECURSIVE StartLineLoop(_, _, _, _)
StartLineLoop(originalLines, startIndex, currentIndex, startLineNum) ==
    IF currentIndex < startIndex /\ startLineNum < Len(originalLines)
    THEN StartLineLoop(originalLines, startIndex,
                       currentIndex + Len(originalLines[startLineNum + 1]) + 1,
                       startLineNum + 1)
    ELSE startLineNum

StartLineNum(originalLines, startIndex) == StartLineLoop(originalLines, startIndex, 0, 0)

\* sum of (length + 1) over the 0-based lines from..to-1
RECURSIVE LineSpan(_, _, _)
LineSpan(originalLines, from, to) ==
    IF from >= to THEN 0
    ELSE Len(originalLines[from + 1]) + 1 + LineSpan(originalLines, from + 1, to)

\* LineRange with the end offset not counting the newline of each matched line
LineRange_NoNewline(originalLines, pos, k) ==
    LET matchStartIndex == LineSpan(originalLines, 0, pos)
    IN  <<matchStartIndex, matchStartIndex + LineSpan(originalLines, pos, pos + k) - k>>

\* the range of k lines starting at line pos
LineRange(originalLines, pos, k) ==
    LET matchStartIndex == LineSpan(originalLines, 0, pos)
    IN  <<matchStartIndex, matchStartIndex + LineSpan(originalLines, pos, pos + k)>>

lineTrimmedFallbackMatch(original, searchContent, startIndex) ==
    LET originalLines == Split(original)
        searchLines == PopTrailingEmpty(Split(searchContent))
        k == Len(searchLines)
        n == Len(originalLines)
    IN  IF k = 0 THEN NoMatch
        ELSE
        LET startLineNum == StartLineNum(originalLines, startIndex)
            firstLineTrimmed == Trim(searchLines[1])
            lastLineTrimmed == Trim(searchLines[k])
            \* lineHashMap.get(firstLineTrimmed)
            positions == {p \in startLineNum..(n - k) :
                              Trim(originalLines[p + 1]) = firstLineTrimmed}
            validPatternExists ==
                \E p \in positions :
                    p + k - 1 < n /\ Trim(originalLines[p + k]) = lastLineTrimmed
            matching == {p \in positions :
                            \A j \in 0..(k - 1) :
                                Trim(originalLines[p + j + 1]) = Trim(searchLines[j + 1])}
        IN  IF k > 1 /\ positions = {} THEN NoMatch
            ELSE IF k > 1 /\ ~validPatternExists THEN NoMatch
            ELSE IF matching = {} THEN NoMatch
            ELSE LET pos == CHOOSE p \in matching : \A q \in matching : p <= q
                 IN  LineRange(originalLines, pos, k)

blockAnchorFallbackMatch(original, searchContent, startIndex) ==
    LET originalLines == Split(original)
        rawLines == Split(searchContent)
    IN  IF Len(rawLines) < 3 THEN NoMatch
        ELSE
        LET searchLines == PopTrailingEmpty(rawLines)
            searchBlockSize == Len(searchLines)
            firstLineSearch == Trim(searchLines[1])
            lastLineSearch == Trim(searchLines[searchBlockSize])
            startLineNum == StartLineNum(originalLines, startIndex)
            anchored == {i \in startLineNum..(Len(originalLines) - searchBlockSize) :
                            /\ Trim(originalLines[i + 1]) = firstLineSearch
                            /\ Trim(originalLines[i + searchBlockSize]) = lastLineSearch}
        IN  IF anchored = {} THEN NoMatch
            ELSE LET i == CHOOSE p \in anchored : \A q \in anchored : p <= q
                 IN  LineRange(originalLines, i, searchBlockSize)


(***************************************************************************)
(* Processor: constructNewFileContent(diffContent, originalContent,        *)
(* isFinal).  The locals of the function are the fields of a record.       *)
(***************************************************************************)
InitLocals ==
    [ result |-> <<>>,
      lastProcessedIndex |-> 0,
      changedRegions |-> <<>>,
      resultLength |-> 0,
      searchSegments |-> <<>>,
      replaceSegments |-> <<>>,
      inSearch |-> FALSE,
      inReplace |-> FALSE,
      searchMatchIndex |-> -1,
      searchEndIndex |-> -1,
      replacementStartOffset |-> -1 ]

\* StripPartialMarker removing every line that looks like a partial marker
StripPartialMarker_AnyLine(ls) ==
    LET partial(l) == /\ (StartsWith(l, <<"<">>) \/ StartsWith(l, <<"=">>)
                            \/ StartsWith(l, <<">">>))
                      /\ l # SEARCH_MARKER
                      /\ l # SEPARATOR_MARKER
                      /\ l # REPLACE_MARKER
    IN  SelectSeq(ls, LAMBDA l : ~partial(l))

\* "If the last line looks like a partial marker but isn't recognized, remove it"
StripPartialMarker(ls) ==
    LET lastLine == ls[Len(ls)]
    IN  IF /\ Len(ls) > 0
           /\ (StartsWith(lastLine, <<"<">>) \/ StartsWith(lastLine, <<"=">>)
                 \/ StartsWith(lastLine, <<">">>))
           /\ lastLine # SEARCH_MARKER
           /\ lastLine # SEPARATOR_MARKER
           /\ lastLine # REPLACE_MARKER
        THEN SubSeq(ls, 1, Len(ls) - 1)
        ELSE ls

\* "append any remaining original content"
AppendRemaining(s, original) ==
    IF s.lastProcessedIndex < Len(original)
    THEN [s EXCEPT !.result = appendSlice(s.result, original, s.lastProcessedIndex, Len(original))]
    ELSE s

\* NoSearchBlocks looking for the REPLACE marker instead of the SEARCH marker
NoSearchBlocks_ForReplace(diff, final) == final /\ ~Includes(diff, REPLACE_MARKER)

\* the early exit test before the loop
NoSearchBlocks(diff, final) == final /\ ~Includes(diff, SEARCH_MARKER)

\* OnSearchMarker keeping the search lines of the block it abandons
OnSearchMarker_KeepsSearch(s) ==
    IF s.inSearch \/ s.inReplace
    THEN [s EXCEPT !.inSearch = TRUE, !.inReplace = FALSE, !.replaceSegments = <<>>]
    ELSE [s EXCEPT !.inSearch = TRUE]

\* line === "<<<<<<< SEARCH"
OnSearchMarker(s) ==
    IF s.inSearch \/ s.inReplace
    THEN [s EXCEPT !.inSearch = TRUE, !.inReplace = FALSE,
                   !.searchSegments = <<>>, !.replaceSegments = <<>>]
    ELSE [s EXCEPT !.inSearch = TRUE]

\* SearchContentOf testing the joined text instead of the number of segments
SearchContentOf_BlankIsEmpty(searchSegments) ==
    IF Trim(Join(searchSegments)) # <<>> THEN Join(searchSegments) \o <<NL>> ELSE <<>>

\* searchSegments.join("\n"), plus "\n" when there are segments
SearchContentOf(searchSegments) ==
    IF Len(searchSegments) > 0 THEN Join(searchSegments) \o <<NL>> ELSE <<>>

\* FindMatch with the line-trimmed matcher tried before the exact one
FindMatch_TrimmedFirst(original, currentSearchContent, lastProcessedIndex) ==
    LET lineMatch == lineTrimmedFallbackMatch(original, currentSearchContent, lastProcessedIndex)
        exactIndex == boyerMooreSearch(original, currentSearchContent, lastProcessedIndex)
    IN  IF lineMatch # NoMatch THEN lineMatch
        ELSE IF exactIndex # -1
        THEN <<exactIndex, exactIndex + Len(currentSearchContent)>>
        ELSE blockAnchorFallbackMatch(original, currentSearchContent, lastProcessedIndex)

\* the three matchers in the order the processor tries them
FindMatch(original, currentSearchContent, lastProcessedIndex) ==
    LET exactIndex == boyerMooreSearch(original, currentSearchContent, lastProcessedIndex)
    IN  IF exactIndex # -1
        THEN <<exactIndex, exactIndex + Len(currentSearchContent)>>
        ELSE LET lineMatch == lineTrimmedFallbackMatch(original, currentSearchContent,
                                                       lastProcessedIndex)
             IN  IF lineMatch # NoMatch THEN lineMatch
                 ELSE blockAnchorFallbackMatch(original, currentSearchContent,
                                               lastProcessedIndex)

\* MatchRange treating an empty search as an insertion at offset 0 of any original
MatchRange_InsertAtStart(s, original) ==
    LET currentSearchContent == SearchContentOf(s.searchSegments)
    IN  IF currentSearchContent = <<>>
        THEN <<0, 0>>
        ELSE FindMatch(original, currentSearchContent, s.lastProcessedIndex)

\* the range chosen at "=======": empty search, or the matchers
MatchRange(s, original) ==
    LET currentSearchContent == SearchContentOf(s.searchSegments)
    IN  IF currentSearchContent = <<>>
        THEN IF Len(original) = 0 THEN <<0, 0>> ELSE <<0, Len(original)>>
        ELSE FindMatch(original, currentSearchContent, s.lastProcessedIndex)

\* CopyPrefix copying the original from its start, not from the cursor
CopyPrefix_FromStart(s, original, matchIndex) ==
    IF matchIndex > s.lastProcessedIndex
    THEN [s EXCEPT !.result = appendSlice(s.result, original, 0, matchIndex),
                   !.resultLength = s.resultLength + matchIndex]
    ELSE s

\* CopyPrefix copying the text without counting it in resultLength
CopyPrefix_NoCount(s, original, matchIndex) ==
    IF matchIndex > s.lastProcessedIndex
    THEN [s EXCEPT !.result = appendSlice(s.result, original, s.lastProcessedIndex, matchIndex)]
    ELSE s

\* "Output everything up to the match location"
CopyPrefix(s, original, matchIndex) ==
    IF matchIndex > s.lastProcessedIndex
    THEN [s EXCEPT !.result = appendSlice(s.result, original, s.lastProcessedIndex, matchIndex),
                   !.resultLength = s.resultLength + (matchIndex - s.lastProcessedIndex)]
    ELSE s

\* MarkReplacementStart recording the offset in the original, not in the result
MarkReplacementStart_InOriginal(s) == [s EXCEPT !.replacementStartOffset = s.searchMatchIndex]

\* "Remember where this replacement starts in the result"
MarkReplacementStart(s) == [s EXCEPT !.replacementStartOffset = s.resultLength]

\* line === "=======" once the range is known: enter replace mode, keep the
\* range, copy the original up to it, remember where the replacement starts
ApplyRange(s, original, range) ==
    LET s1 == [s EXCEPT !.inSearch = FALSE, !.inReplace = TRUE,
                        !.searchMatchIndex = range[1], !.searchEndIndex = range[2]]
    IN  MarkReplacementStart(CopyPrefix(s1, original, range[1]))

\* line === "=======" when a range was found
OnSeparator(s, original) == ApplyRange(s, original, MatchRange(s, original))

\* "Add this change region to our tracking array"
NewRegion(s) ==
    [ startOffset |-> s.replacementStartOffset,
      endOffset |-> s.resultLength,
      startLine |-> getLineNumberFromOffset(s.result, s.replacementStartOffset),
      endLine |-> getLineNumberFromOffset(s.result, s.resultLength) ]

RecordsRegion(s) == s.searchMatchIndex # -1 /\ s.replacementStartOffset # -1

\* OnReplaceMarker without the reset of the match of the block it closes
OnReplaceMarker_KeepsMatch(s) ==
    [s EXCEPT !.changedRegions = IF RecordsRegion(s) THEN Append(@, NewRegion(s)) ELSE @,
              !.lastProcessedIndex = s.searchEndIndex,
              !.inSearch = FALSE, !.inReplace = FALSE,
              !.searchSegments = <<>>, !.replaceSegments = <<>>]

\* OnReplaceMarker leaving lastProcessedIndex where it was
OnReplaceMarker_KeepsCursor(s) ==
    [s EXCEPT !.changedRegions = IF RecordsRegion(s) THEN Append(@, NewRegion(s)) ELSE @,
              !.inSearch = FALSE, !.inReplace = FALSE,
              !.searchSegments = <<>>, !.replaceSegments = <<>>,
              !.searchMatchIndex = -1, !.searchEndIndex = -1,
              !.replacementStartOffset = -1]

\* line === ">>>>>>> REPLACE", up to the reset for the next block
OnReplaceMarker(s) ==
    [s EXCEPT !.changedRegions = IF RecordsRegion(s) THEN Append(@, NewRegion(s)) ELSE @,
              !.lastProcessedIndex = s.searchEndIndex,
              !.inSearch = FALSE, !.inReplace = FALSE,
              !.searchSegments = <<>>, !.replaceSegments = <<>>,
              !.searchMatchIndex = -1, !.searchEndIndex = -1,
              !.replacementStartOffset = -1]

\* "EARLY EXIT: Check if there are more SEARCH blocks in the remaining content"
NoMoreSearchBlocks(diff, final, line) ==
    /\ final
    /\ LET remainingText == Slice(diff, IndexOf(diff, line) + Len(line), Len(diff))
       IN  ~Includes(remainingText, SEARCH_MARKER)

\* any other line: "Accumulate content for search or replace"
OnContentLine(s, line) ==
    IF s.inSearch THEN [s EXCEPT !.searchSegments = Append(@, line)]
    ELSE IF s.inReplace
    THEN IF s.searchMatchIndex # -1
         THEN [s EXCEPT !.replaceSegments = Append(@, line),
                        !.result = appendLine(@, line),
                        !.resultLength = @ + Len(line) + 1]
         ELSE [s EXCEPT !.replaceSegments = Append(@, line)]
    ELSE s

IsMarker(line) == line \in {SEARCH_MARKER, SEPARATOR_MARKER, REPLACE_MARKER}


(***************************************************************************)
(* The call as a pure function: run the loop to its outcome.               *)
(***************************************************************************)
Prepared(diff) == StripPartialMarker(Split(diff))

RECURSIVE RunLoop(_, _, _, _, _, _)
RunLoop(s, ls, i, diff, original, final) ==
    IF i > Len(ls)
    THEN [outcome |-> "ok", locals |-> IF final THEN AppendRemaining(s, original) ELSE s]
    ELSE LET line == ls[i]
         IN  IF line = SEARCH_MARKER
             THEN RunLoop(OnSearchMarker(s), ls, i + 1, diff, original, final)
             ELSE IF line = SEPARATOR_MARKER
             THEN IF MatchRange(s, original) = NoMatch
                  THEN [outcome |-> "error", locals |-> s]
                  ELSE RunLoop(OnSeparator(s, original), ls, i + 1, diff, original, final)
             ELSE IF line = REPLACE_MARKER
             THEN IF NoMoreSearchBlocks(diff, final, line)
                  THEN [outcome |-> "ok",
                        locals |-> AppendRemaining(OnReplaceMarker(s), original)]
                  ELSE RunLoop(OnReplaceMarker(s), ls, i + 1, diff, original, final)
             ELSE RunLoop(OnContentLine(s, line), ls, i + 1, diff, original, final)

constructNewFileContent(diff, original, final) ==
    LET r == IF NoSearchBlocks(diff, final)
             THEN [outcome |-> "ok", locals |-> AppendRemaining(InitLocals, original)]
             ELSE RunLoop(InitLocals, Prepared(diff), 1, diff, original, final)
    IN  [outcome |-> r.outcome,
         content |-> r.locals.result,
         changedRegions |-> r.locals.changedRegions]

(***************************************************************************)
(* Inputs.                                                                 *)
(***************************************************************************)
OrigChars == {"a", NL}

SeqsUpTo(S, n) == UNION {[1..k -> S] : k \in 0..n}

Originals == SeqsUpTo(OrigChars, MaxOrigLen)

LineA == <<"a">>
LineSpA == <<SP, "a">>
LineB == <<"b">>
LineEmpty == <<>>
LinePartial == <<"<", "<">>

SearchBodies == {<<>>, <<LineA>>, <<LineSpA>>, <<LineA, LineA, LineA>>}

Block(searchBody, replaceBody) ==
    <<SEARCH_MARKER>> \o searchBody \o <<SEPARATOR_MARKER>> \o replaceBody \o <<REPLACE_MARKER>>

\* every search body with a one-line replacement; deletions and the empty block
WellFormedSegs ==
    {Block(sb, <<LineB>>) : sb \in SearchBodies} \cup {Block(sb, <<>>) : sb \in {<<>>, <<LineA>>}}

\* REPLACE marker in search mode; second separator in replace mode;
\* a block left open, which a following SEARCH marker re-opens
MalformedSegs ==
    { <<SEARCH_MARKER, LineA, REPLACE_MARKER>>,
      <<SEARCH_MARKER, LineA, SEPARATOR_MARKER, LineB, SEPARATOR_MARKER, LineB, REPLACE_MARKER>>,
      <<SEARCH_MARKER, LineA, SEPARATOR_MARKER, LineB>> }

SingleLineSegs ==
    { <<SEARCH_MARKER>>, <<SEPARATOR_MARKER>>, <<REPLACE_MARKER>>,
      <<LineEmpty>>, <<LinePartial>> }

Segs == WellFormedSegs \cup MalformedSegs \cup SingleLineSegs

RECURSIVE Flatten(_)
Flatten(ss) == IF Len(ss) = 0 THEN <<>> ELSE ss[1] \o Flatten(Tail(ss))

DiffOf(ss) == Join(Flatten(ss))

(***************************************************************************)
(* The call as a state machine.                                            *)
(***************************************************************************)
InitHist ==
    [applied |-> <<>>, emitted |-> <<>>, reported |-> <<>>, copied |-> <<>>, replaced |-> {}]

\* the offsets of the characters source.slice(start, end) yields
SliceRange(source, start, end) ==
    LET n == Len(source)
        from == IF start < 0 THEN Max(n + start, 0) ELSE Min(start, n)
        to == IF end < 0 THEN Max(n + end, 0) ELSE Min(end, n)
    IN  <<from, to>>

\* the history after result.appendSlice(originalContent, start, end)
HistCopy(h, original, start, end) ==
    LET r == SliceRange(original, start, end)
    IN  IF start < end /\ r[1] < r[2] THEN [h EXCEPT !.copied = Append(@, r)] ELSE h

\* the history after the prefix copy of "======="
HistOnSeparator(h, s, original) ==
    HistCopy([h EXCEPT !.emitted = <<>>], original, s.lastProcessedIndex,
             MatchRange(s, original)[1])

\* the history after the final append of the rest of the original
HistOnRemaining(h, s, original) ==
    IF s.lastProcessedIndex < Len(original)
    THEN HistCopy(h, original, s.lastProcessedIndex, Len(original))
    ELSE h

\* no matcher has been called on its own
NoCall == [matcher |-> "none", range |-> <<-1, -1>>]

Init ==
    /\ segments \in SeqsUpTo(Segs, MaxSegs)
    /\ originalContent \in Originals
    /\ diffContent = DiffOf(segments)
    /\ isFinal \in BOOLEAN
    /\ lines = <<>>
    /\ lineNo = 0
    /\ pc = "start"
    /\ st = InitLocals
    /\ hist = InitHist
    /\ callSearch = <<>>
    /\ callStart = 0
    /\ matchResult = NoCall

Inputs == <<segments, originalContent, diffContent, isFinal>>

\* final call without any SEARCH marker: return the original at once
EarlyExit ==
    /\ pc = "start"
    /\ NoSearchBlocks(diffContent, isFinal)
    /\ lines' = Prepared(diffContent)
    /\ st' = AppendRemaining(st, originalContent)
    /\ pc' = "done"
    /\ hist' = HistOnRemaining(hist, st, originalContent)
    /\ UNCHANGED <<Inputs, matcherVars, lineNo>>

\* split the diff, strip a partial trailing marker, enter the loop
Prepare ==
    /\ pc = "start"
    /\ ~NoSearchBlocks(diffContent, isFinal)
    /\ lines' = Prepared(diffContent)
    /\ lineNo' = 1
    /\ pc' = "loop"
    /\ UNCHANGED <<Inputs, matcherVars, st, hist>>

InLoop == pc = "loop" /\ lineNo <= Len(lines)

SearchMarker ==
    /\ InLoop
    /\ lines[lineNo] = SEARCH_MARKER
    /\ st' = OnSearchMarker(st)
    /\ lineNo' = lineNo + 1
    /\ UNCHANGED <<Inputs, matcherVars, lines, pc, hist>>

Separator ==
    /\ InLoop
    /\ lines[lineNo] = SEPARATOR_MARKER
    /\ MatchRange(st, originalContent) # NoMatch
    /\ st' = OnSeparator(st, originalContent)
    /\ lineNo' = lineNo + 1
    /\ hist' = HistOnSeparator(hist, st, originalContent)
    /\ UNCHANGED <<Inputs, matcherVars, lines, pc>>

\* SeparatorNoMatch dropping the block silently instead of throwing
SeparatorNoMatch_Skips ==
    /\ InLoop
    /\ lines[lineNo] = SEPARATOR_MARKER
    /\ MatchRange(st, originalContent) = NoMatch
    /\ lineNo' = lineNo + 1
    /\ st' = [st EXCEPT !.inSearch = FALSE, !.searchSegments = <<>>]
    /\ UNCHANGED <<Inputs, matcherVars, lines, pc, hist>>

\* ReportedSearch removing exactly one trailing newline
ReportedSearch_OneNewline(currentSearchContent) ==
    IF Len(currentSearchContent) > 0 /\ currentSearchContent[Len(currentSearchContent)] = NL
    THEN SubSeq(currentSearchContent, 1, Len(currentSearchContent) - 1)
    ELSE currentSearchContent

\* the search content quoted in the message of the error: ${currentSearchContent.trimEnd()}
ReportedSearch(currentSearchContent) == TrimEnd(currentSearchContent)

\* all three matchers failed: throw
SeparatorNoMatch ==
    /\ InLoop
    /\ lines[lineNo] = SEPARATOR_MARKER
    /\ MatchRange(st, originalContent) = NoMatch
    /\ pc' = "error"
    /\ hist' = [hist EXCEPT !.reported = ReportedSearch(SearchContentOf(st.searchSegments))]
    /\ UNCHANGED <<Inputs, matcherVars, lines, lineNo, st>>

HistOnReplace ==
    IF RecordsRegion(st)
    THEN [hist EXCEPT !.applied = Append(@, [matchStart |-> st.searchMatchIndex,
                                             matchEnd |-> st.searchEndIndex,
                                             searchLines |-> st.searchSegments,
                                             replacement |-> hist.emitted]),
                      !.emitted = <<>>]
    ELSE hist

ReplaceMarker ==
    /\ InLoop
    /\ lines[lineNo] = REPLACE_MARKER
    /\ ~NoMoreSearchBlocks(diffContent, isFinal, lines[lineNo])
    /\ st' = OnReplaceMarker(st)
    /\ lineNo' = lineNo + 1
    /\ hist' = HistOnReplace
    /\ UNCHANGED <<Inputs, matcherVars, lines, pc>>

\* REPLACE marker with no SEARCH marker left: finish early
ReplaceMarkerLast ==
    /\ InLoop
    /\ lines[lineNo] = REPLACE_MARKER
    /\ NoMoreSearchBlocks(diffContent, isFinal, lines[lineNo])
    /\ st' = AppendRemaining(OnReplaceMarker(st), originalContent)
    /\ pc' = "done"
    /\ hist' = HistOnRemaining(HistOnReplace, OnReplaceMarker(st), originalContent)
    /\ UNCHANGED <<Inputs, matcherVars, lines, lineNo>>

ContentLine ==
    /\ InLoop
    /\ ~IsMarker(lines[lineNo])
    /\ st' = OnContentLine(st, lines[lineNo])
    /\ lineNo' = lineNo + 1
    /\ hist' = IF st.inReplace /\ ~st.inSearch /\ st.searchMatchIndex # -1
               THEN [hist EXCEPT !.emitted = @ \o lines[lineNo] \o <<NL>>,
                                 !.replaced = @ \cup {<<st.searchMatchIndex, st.searchEndIndex>>}]
               ELSE hist
    /\ UNCHANGED <<Inputs, matcherVars, lines, pc>>

\* Finish appending the rest of the original whatever isFinal is
Finish_AlwaysAppends ==
    /\ pc = "loop"
    /\ lineNo > Len(lines)
    /\ st' = AppendRemaining(st, originalContent)
    /\ pc' = "done"
    /\ hist' = HistOnRemaining(hist, st, originalContent)
    /\ UNCHANGED <<Inputs, matcherVars, lines, lineNo>>

\* the loop is exhausted: append the rest of the original on a final call
Finish ==
    /\ pc = "loop"
    /\ lineNo > Len(lines)
    /\ st' = IF isFinal THEN AppendRemaining(st, originalContent) ELSE st
    /\ pc' = "done"
    /\ hist' = IF isFinal THEN HistOnRemaining(hist, st, originalContent) ELSE hist
    /\ UNCHANGED <<Inputs, matcherVars, lines, lineNo>>

Next ==
    \/ EarlyExit
    \/ Prepare
    \/ SearchMarker
    \/ Separator
    \/ SeparatorNoMatch
    \/ ReplaceMarker
    \/ ReplaceMarkerLast
    \/ ContentLine
    \/ Finish

Spec == Init /\ [][Next]_vars


(***************************************************************************)
(* Properties.                                                             *)
(***************************************************************************)
Returned == pc = "done"

\* the content I4 prescribes for the applied blocks, in original coordinates
RECURSIVE ExpectedFrom(_, _, _)
ExpectedFrom(original, blocks, cursor) ==
    IF Len(blocks) = 0 THEN Slice(original, Max(cursor, 0), Len(original))
    ELSE Slice(original, Max(cursor, 0), Max(blocks[1].matchStart, 0))
            \o blocks[1].replacement
            \o ExpectedFrom(original, Tail(blocks), blocks[1].matchEnd)

ExpectedContent(original, blocks) == ExpectedFrom(original, blocks, 0)

\* C1: byte preservation. A final call that returns yields
\* original[0..s_1] + replace_1 + original[e_1..s_2] + ... + original[e_N..end]
\* for the blocks it applied.
C1_BytePreservation ==
    (Returned /\ isFinal) => st.result = ExpectedContent(originalContent, hist.applied)

\* the line the loop is about to process is the separator of a block with search lines
AtSeparatorWithSearch ==
    /\ InLoop
    /\ lines[lineNo] = SEPARATOR_MARKER
    /\ Len(st.searchSegments) > 0

ExactRange(original, content, cursor) ==
    LET i == boyerMooreSearch(original, content, cursor)
    IN  IF i = -1 THEN NoMatch ELSE <<i, i + Len(content)>>

\* C2: matcher precedence. At "=======" with non-empty search content the range
\* kept in (searchMatchIndex, searchEndIndex) is ExactMatch's if it found one,
\* LineTrimmedMatch's only if ExactMatch found none, BlockAnchorMatch's only if
\* both found none.
C2_MatcherPrecedence ==
    [][ AtSeparatorWithSearch =>
          LET content == SearchContentOf(st.searchSegments)
              exact == ExactRange(originalContent, content, st.lastProcessedIndex)
              trimmed == lineTrimmedFallbackMatch(originalContent, content, st.lastProcessedIndex)
              anchor == blockAnchorFallbackMatch(originalContent, content, st.lastProcessedIndex)
              used == <<st'.searchMatchIndex, st'.searchEndIndex>>
          IN  /\ exact # NoMatch => used = exact
              /\ (exact = NoMatch /\ trimmed # NoMatch) => used = trimmed
              /\ (exact = NoMatch /\ trimmed = NoMatch /\ anchor # NoMatch) => used = anchor
      ]_vars

\* a block in replace mode whose range came from LineTrimmedMatch although the
\* search text also occurs (later) as an exact substring of the original
C2_Witness ==
    /\ pc = "loop"
    /\ st.inReplace
    /\ Len(st.searchSegments) > 0
    /\ Len(st.replaceSegments) = 0
    /\ LET content == SearchContentOf(st.searchSegments)
       IN  /\ ExactRange(originalContent, content, st.lastProcessedIndex) = NoMatch
           /\ ExactRange(originalContent, content, 0) # NoMatch
           /\ <<st.searchMatchIndex, st.searchEndIndex>>
                = lineTrimmedFallbackMatch(originalContent, content, st.lastProcessedIndex)

AllMatchersFail ==
    /\ AtSeparatorWithSearch
    /\ FindMatch(originalContent, SearchContentOf(st.searchSegments), st.lastProcessedIndex)
         = NoMatch

\* C3: NoMatch is fatal. When all three matchers fail for a block with search
\* content the call ends in the error outcome, whatever was applied before, and
\* an errored call never returns a result.
C3_NoMatchFatal ==
    [][ /\ AllMatchersFail => pc' = "error"
        /\ pc = "error" => pc' = "error"
      ]_vars

\* the call failed after an earlier block of the same chunk had been applied
C3_Witness == pc = "error" /\ Len(st.changedRegions) > 0 /\ Len(hist.applied) > 0


IsMalformedSeg(seg) == seg \in MalformedSegs
IsWellFormedSeg(seg) == seg \in WellFormedSegs

\* a diff made of blocks only, in which a malformed block is followed by a well-formed one
MalformedThenWellFormed(ss) ==
    /\ Len(ss) >= 2
    /\ \A i \in 1..Len(ss) : IsMalformedSeg(ss[i]) \/ IsWellFormedSeg(ss[i])
    /\ IsMalformedSeg(ss[1])
    /\ IsWellFormedSeg(ss[Len(ss)])

\* the same diff with the malformed blocks' lines removed
WithoutMalformed(ss) == SelectSeq(ss, IsWellFormedSeg)

\* C4: malformed blocks do not poison later blocks. The final content and
\* changedRegions of a diff with a malformed block followed by well-formed
\* blocks equal those of the diff with the malformed block's lines removed.
C4_MalformedDoNotPoison ==
    (isFinal /\ pc \in {"done", "error"} /\ MalformedThenWellFormed(segments)) =>
        LET clean == constructNewFileContent(DiffOf(WithoutMalformed(segments)),
                                             originalContent, TRUE)
        IN  clean.outcome = "ok" =>
                /\ Returned
                /\ st.result = clean.content
                /\ st.changedRegions = clean.changedRegions

\* C5: left-to-right application. In a call that returns, successive applied
\* blocks (empty search content included) satisfy B1.matchEnd <= B2.matchStart.
C5_LeftToRight ==
    Returned =>
        \A i \in 1..(Len(hist.applied) - 1) :
            hist.applied[i].matchEnd <= hist.applied[i + 1].matchStart

\* 0, len(original), or the offset just after a "\n"
OnLineBoundary(original, offset) ==
    \/ offset = 0
    \/ offset = Len(original)
    \/ (offset >= 1 /\ offset <= Len(original) /\ original[offset] = NL)

\* C6: cursor invariant. lastProcessedIndex never decreases (so never becomes
\* negative) and lies on a line boundary of the original after each applied block.
C6_CursorInvariant ==
    [][ /\ st'.lastProcessedIndex >= st.lastProcessedIndex
        /\ Len(hist'.applied) > Len(hist.applied) =>
              OnLineBoundary(originalContent, st'.lastProcessedIndex)
      ]_vars

NewlinesIn(text) == Cardinality({i \in 1..Len(text) : text[i] = NL})

\* C7: change-region accuracy. For every returned region,
\* content[startOffset..endOffset] is the replacement emitted for its block and
\* startLine / endLine count the newlines before the two offsets.
C7_RegionAccuracy ==
    Returned =>
        \A i \in 1..Len(st.changedRegions) :
            LET r == st.changedRegions[i]
            IN  /\ r.startOffset >= 0 /\ r.endOffset <= Len(st.result)
                /\ r.startOffset <= r.endOffset
                /\ SubSeq(st.result, r.startOffset + 1, r.endOffset) = hist.applied[i].replacement
                /\ r.startLine = NewlinesIn(SubSeq(st.result, 1, r.startOffset))
                /\ r.endLine = NewlinesIn(SubSeq(st.result, 1, r.endOffset))

\* C8: changedRegions ordering. The regions are sorted by startOffset and do
\* not overlap: r_i.startOffset <= r_i.endOffset <= r_{i+1}.startOffset.
C8_RegionsOrdered ==
    /\ \A i \in 1..Len(st.changedRegions) :
           st.changedRegions[i].startOffset <= st.changedRegions[i].endOffset
    /\ \A i \in 1..(Len(st.changedRegions) - 1) :
           st.changedRegions[i].endOffset <= st.changedRegions[i + 1].startOffset

\* a returned result with two regions, the first one non-empty
C8_Witness ==
    /\ Returned
    /\ Len(st.changedRegions) = 2
    /\ st.changedRegions[1].startOffset < st.changedRegions[1].endOffset
    /\ st.changedRegions[2].startOffset > 0


IsPrefix(p, t) == Len(p) <= Len(t) /\ SubSeq(t, 1, Len(p)) = p

\* the diff text split after its first k lines: chunk one keeps its newline
ChunkOne(diff, k) == Join(SubSeq(Split(diff), 1, k)) \o <<NL>>
ChunkTwo(diff, k) == Join(SubSeq(Split(diff), k + 1, Len(Split(diff))))

\* two calls in order, the second on the first one's content, isFinal on the last
Streamed(diff, original, k) ==
    LET first == constructNewFileContent(ChunkOne(diff, k), original, FALSE)
    IN  IF first.outcome = "error" THEN first
        ELSE constructNewFileContent(ChunkTwo(diff, k), first.content, TRUE)

\* C9: streaming equivalence. For a diff split into chunks at line ends (no
\* chunk boundary inside a marker line), the calls on the chunks in order, each
\* on the previous call's content and isFinal only on the last, give the
\* content of the single final call on the whole diff.
C9_StreamingEquivalence ==
    (Returned /\ isFinal) =>
        \A k \in 1..(Len(Split(diffContent)) - 1) :
            LET streamed == Streamed(diffContent, originalContent, k)
            IN  streamed.outcome = "ok" /\ streamed.content = st.result

\* the cut at offset k falls strictly inside a marker line
CutsMarkerLine(diff, k) ==
    LET before == Split(Slice(diff, 0, k))
        after == Split(Slice(diff, k, Len(diff)))
        head == before[Len(before)]
        rest == after[1]
    IN  Len(head) > 0 /\ Len(rest) > 0 /\ IsMarker(head \o rest)

AllWellFormed(ss) == Len(ss) > 0 /\ \A i \in 1..Len(ss) : IsWellFormedSeg(ss[i])

\* C10: incremental output is a prefix of the final output. For a well-formed
\* diff whose blocks all match and every prefix of it that cuts no marker line,
\* the content of the non-final call on the prefix is a prefix of the content
\* of the final call on the whole diff.
C10_IncrementalPrefix ==
    (Returned /\ isFinal /\ AllWellFormed(segments)) =>
        \A k \in 0..Len(diffContent) :
            ~CutsMarkerLine(diffContent, k) =>
                LET partial == constructNewFileContent(Slice(diffContent, 0, k),
                                                       originalContent, FALSE)
                IN  partial.outcome = "ok" /\ IsPrefix(partial.content, st.result)


(***************************************************************************)
(* The same call on diffs assembled line by line: every sequence of up to  *)
(* MaxLines lines, markers and lines that look like the start of a marker  *)
(* included, on a few originals.                                           *)
(***************************************************************************)
MaxLines == 4

LineEq == <<"=", "=">>
LineGt == <<">">>

DiffLines == {SEARCH_MARKER, SEPARATOR_MARKER, REPLACE_MARKER, LineA, LinePartial, LineEq, LineGt}

LineSegs == {<<l>> : l \in DiffLines}

LineOriginals ==
    { <<>>, <<"a">>, <<"a", NL>>, <<"<", "<", NL>>, <<"a", NL, "a", NL>> }

LineInit ==
    /\ segments \in SeqsUpTo(LineSegs, MaxLines)
    /\ originalContent \in LineOriginals
    /\ diffContent = DiffOf(segments)
    /\ isFinal \in BOOLEAN
    /\ lines = <<>>
    /\ lineNo = 0
    /\ pc = "start"
    /\ st = InitLocals
    /\ hist = InitHist
    /\ callSearch = <<>>
    /\ callStart = 0
    /\ matchResult = NoCall

LineSpec == LineInit /\ [][Next]_vars

(***************************************************************************)
(* Properties, continued.                                                  *)
(***************************************************************************)

\* C11: identity. A final call whose diff contains no "<<<<<<< SEARCH" substring
\* (the empty diff included) returns, its content is the original unchanged and
\* it has no change region.
C11_Identity ==
    (pc # "start" /\ isFinal /\ ~Includes(diffContent, SEARCH_MARKER)) =>
        /\ Returned
        /\ st.result = originalContent
        /\ st.changedRegions = <<>>

\* a returned final call on a non-empty original whose diff has a separator and
\* a REPLACE marker but no SEARCH marker
C11_Witness ==
    /\ Returned /\ isFinal
    /\ ~Includes(diffContent, SEARCH_MARKER)
    /\ Includes(diffContent, SEPARATOR_MARKER)
    /\ Includes(diffContent, REPLACE_MARKER)
    /\ Len(originalContent) > 0

\* the lines of one complete block with an empty search body: SEARCH, "=======",
\* replace lines that are no markers, REPLACE
IsEmptySearchBlock(ls) ==
    /\ Len(ls) >= 3
    /\ ls[1] = SEARCH_MARKER
    /\ ls[2] = SEPARATOR_MARKER
    /\ ls[Len(ls)] = REPLACE_MARKER
    /\ \A i \in 3..(Len(ls) - 1) : ~IsMarker(ls[i])

ReplaceBodyOf(ls) == SubSeq(ls, 3, Len(ls) - 1)

\* each line followed by "\n"
RECURSIVE LinesText(_)
LinesText(ls) == IF Len(ls) = 0 THEN <<>> ELSE ls[1] \o <<NL>> \o LinesText(Tail(ls))

IsEmptyBlockDiff(ss) ==
    \/ ss = <<Block(<<>>, <<>>)>>
    \/ ss = <<Block(<<>>, <<>>), <<LineEmpty>>>>

C14_EmptyBlockSkipped ==
    (pc \in {"done", "error"} /\ isFinal /\ IsEmptyBlockDiff(segments)) =>
        /\ Returned
        /\ st.result = originalContent
        /\ st.changedRegions = <<>>

\* the i-th applied block had search lines and emitted no replacement line
IsDeletion(i) ==
    /\ Len(hist.applied[i].searchLines) > 0
    /\ hist.applied[i].replacement = <<>>

\* a well-formed block with a non-empty search body and an empty replace body
IsDeletionBlock(seg) == \E sb \in SearchBodies \ {<<>>} : seg = Block(sb, <<>>)

\* the content clause of C15, for a final call on a single deletion block
SingleDeletionContent ==
    (isFinal /\ Len(segments) = 1 /\ IsDeletionBlock(segments[1])) =>
        /\ Len(hist.applied) = 1
        /\ st.result = Slice(originalContent, 0, hist.applied[1].matchStart)
                          \o Slice(originalContent, hist.applied[1].matchEnd,
                                   Len(originalContent))

\* C15: pure deletion. A well-formed block with non-empty search and empty
\* replace removes exactly [matchStart, matchEnd) (content = original[0..matchStart]
\* + original[matchEnd..end] for a single block) and records one change region
\* with startOffset = endOffset = matchStart.
C15_PureDeletion ==
    (Returned /\ AllWellFormed(segments)) =>
        /\ SingleDeletionContent
        /\ \A i \in 1..Len(hist.applied) :
               IsDeletion(i) =>
                   /\ i <= Len(st.changedRegions)
                   /\ st.changedRegions[i].startOffset = st.changedRegions[i].endOffset
                   /\ st.changedRegions[i].startOffset = hist.applied[i].matchStart

\* C15 as amended: the region of a pure deletion has startOffset = endOffset,
\* in any diff; the common value is matchStart when the block is the whole diff,
\* and then content = original[0..matchStart] + original[matchEnd..end].
C15_PureDeletion_Amended ==
    Returned =>
        /\ SingleDeletionContent
        /\ (Len(segments) = 1 /\ IsDeletionBlock(segments[1])) =>
               /\ Len(st.changedRegions) = 1
               /\ st.changedRegions[1].startOffset = hist.applied[1].matchStart
        /\ \A i \in 1..Len(hist.applied) :
               IsDeletion(i) =>
                   /\ i <= Len(st.changedRegions)
                   /\ st.changedRegions[i].startOffset = st.changedRegions[i].endOffset

\* two deletions applied in one call: the second one's region lies before its
\* matchStart, because the first deletion shortened the content
C15_Witness ==
    /\ Returned /\ isFinal
    /\ Len(hist.applied) = 2
    /\ IsDeletion(1) /\ IsDeletion(2)
    /\ hist.applied[1].matchStart < hist.applied[1].matchEnd
    /\ st.changedRegions[2].startOffset < hist.applied[2].matchStart

\* the line starts with "<", "=" or ">" and is not exactly one of the markers
LooksPartial(line) ==
    /\ Len(line) > 0
    /\ line[1] \in {"<", "=", ">"}
    /\ ~IsMarker(line)

\* the step treats the line as ordinary content: search mode buffers it,
\* replace mode buffers it and emits it once the match is known, idle ignores it
TreatedAsContent(line) ==
    /\ pc' = pc
    /\ st.inSearch =>
          /\ st'.searchSegments = Append(st.searchSegments, line)
          /\ st'.replaceSegments = st.replaceSegments
          /\ st'.result = st.result
    /\ (~st.inSearch /\ st.inReplace) =>
          /\ st'.replaceSegments = Append(st.replaceSegments, line)
          /\ st'.searchSegments = st.searchSegments
          /\ st'.result = IF st.searchMatchIndex # -1
                           THEN st.result \o line \o <<NL>>
                           ELSE st.result
    /\ (~st.inSearch /\ ~st.inReplace) => st' = st

\* C16: partial trailing marker stripping applies to exactly the last line of
\* the chunk. If the last line starts with "<", "=" or ">" and is not a marker
\* it is never consumed by the loop (it reaches no buffer and not the result);
\* every earlier line is consumed as it stands, and one that starts with "<",
\* "=" or ">" without being a marker is treated as ordinary content.
C16_PartialMarkerLastLineOnly ==
    [][ InLoop =>
          LET raw == Split(diffContent)
          IN  /\ LooksPartial(raw[Len(raw)]) => lineNo < Len(raw)
              /\ lines[lineNo] = raw[lineNo]
              /\ LooksPartial(raw[lineNo]) => TreatedAsContent(raw[lineNo])
      ]_vars

\* the last line of the chunk was dropped while an earlier line that looks like
\* a partial marker went into the replace buffer and the result
C16_Witness ==
    /\ pc = "done"
    /\ LooksPartial(Split(diffContent)[Len(Split(diffContent))])
    /\ Len(st.replaceSegments) = 1
    /\ LooksPartial(st.replaceSegments[1])
    /\ st.result = st.replaceSegments[1] \o <<NL>>

\* what the applied blocks put into the result: for each block the original
\* from the cursor to its matchStart, then its replacement
RECURSIVE EmittedFrom(_, _, _)
EmittedFrom(original, blocks, cursor) ==
    IF Len(blocks) = 0 THEN <<>>
    ELSE Slice(original, Max(cursor, 0), Max(blocks[1].matchStart, 0))
            \o blocks[1].replacement
            \o EmittedFrom(original, Tail(blocks), blocks[1].matchEnd)

LastMatchEnd == hist.applied[Len(hist.applied)].matchEnd

buildIndex(content) ==
    LET ls == Split(content)
    IN  [ lines |-> ls,
          lineToOffset |-> [i \in 1..(Len(ls) + 1) |-> LineSpan(ls, 0, i - 1)] ]

\* this.lines.length
getLineCount(content) == Len(Split(content))

\* this.lineToOffset[lineNumber] || 0
getOffsetForLine(content, lineNumber) ==
    IF lineNumber >= 0 /\ lineNumber <= Len(Split(content))
    THEN LineSpan(Split(content), 0, lineNumber)
    ELSE 0

\* this.lines[lineNumber] || ""
getLineAt(content, lineNumber) ==
    IF lineNumber >= 0 /\ lineNumber < Len(Split(content))
    THEN Split(content)[lineNumber + 1]
    ELSE <<>>

\* this.contentToPositions.get(lineContent.trim()) || []
getPositionsForLine(content, lineContent) ==
    {p \in 0..(getLineCount(content) - 1) : Trim(Split(content)[p + 1]) = Trim(lineContent)}

findPotentialMatches(content, searchLines, startLinePos) ==
    LET k == Len(searchLines)
    IN  IF k = 0 THEN {0}
        ELSE IF k = 1
        THEN {pos \in getPositionsForLine(content, searchLines[1]) : pos >= startLinePos}
        ELSE LET firstLine == Trim(searchLines[1])
                 lastLine == Trim(searchLines[k])
                 firstLinePositions ==
                     {pos \in getPositionsForLine(content, firstLine) : pos >= startLinePos}
             IN  {pos \in firstLinePositions :
                      /\ pos + k - 1 < getLineCount(content)
                      /\ Trim(Split(content)[pos + k]) = lastLine}

\* [startOffset, endOffset] of the first position whose lines all match, or null
findExactMatch(content, searchLines, startLinePos) ==
    LET k == Len(searchLines)
        n == getLineCount(content)
        matching == {pos \in findPotentialMatches(content, searchLines, startLinePos) :
                        \A i \in 0..(k - 1) :
                            /\ pos + i < n
                            /\ Trim(Split(content)[pos + i + 1]) = Trim(searchLines[i + 1])}
    IN  IF matching = {} THEN NoMatch
        ELSE LET pos == CHOOSE p \in matching : \A q \in matching : p <= q
             IN  << getOffsetForLine(content, pos),
                    IF pos + k < n
                    THEN getOffsetForLine(content, pos + k)
                    ELSE getOffsetForLine(content, n - 1) + Len(Split(content)[n]) + 1 >>

\* "Find the line number where startIndex falls", with the index
IndexStartLineNum(content, startIndex) ==
    LET hits == {i \in 0..(getLineCount(content) - 1) :
                    getOffsetForLine(content, i) >= startIndex}
    IN  IF hits = {} THEN 0
        ELSE LET i == CHOOSE h \in hits : \A g \in hits : h <= g
             IN  IF i > 0 THEN i - 1 ELSE 0

\* lineTrimmedFallbackMatch, LineIndex branch
lineTrimmedFallbackMatchIndexed(original, searchContent, startIndex) ==
    LET searchLines == PopTrailingEmpty(Split(searchContent))
    IN  IF Len(searchLines) = 0 THEN NoMatch
        ELSE findExactMatch(original, searchLines, IndexStartLineNum(original, startIndex))

\* blockAnchorFallbackMatch, LineIndex branch
blockAnchorFallbackMatchIndexed(original, searchContent, startIndex) ==
    LET rawLines == Split(searchContent)
    IN  IF Len(rawLines) < 3 THEN NoMatch
        ELSE
        LET searchLines == PopTrailingEmpty(rawLines)
            k == Len(searchLines)
            startLineNum == IndexStartLineNum(original, startIndex)
            firstLine == Trim(searchLines[1])
            lastLine == Trim(searchLines[k])
            firstLinePositions ==
                {pos \in getPositionsForLine(original, firstLine) : pos >= startLineNum}
            anchored == {pos \in firstLinePositions :
                            /\ pos + k - 1 < getLineCount(original)
                            /\ Trim(getLineAt(original, pos + k - 1)) = lastLine}
        IN  IF anchored = {} THEN NoMatch
            ELSE LET pos == CHOOSE p \in anchored : \A q \in anchored : p <= q
                 IN  << getOffsetForLine(original, pos),
                        getOffsetForLine(original, pos + k) >>

(***************************************************************************)
(* A matcher called on its own: any original, search content and start     *)
(* index within the bounds, one call.                                      *)
(***************************************************************************)
MaxTextLen == 4
MaxPatternLen == 3

MatchChars == {"a", SP, NL}

MatcherInit ==
    /\ originalContent \in SeqsUpTo(MatchChars, MaxTextLen)
    /\ callSearch \in SeqsUpTo(MatchChars, MaxPatternLen)
    /\ callStart \in 0..Len(originalContent)
    /\ matchResult = NoCall
    /\ segments = <<>>
    /\ diffContent = <<>>
    /\ isFinal = FALSE
    /\ lines = <<>>
    /\ lineNo = 0
    /\ pc = "matcher"
    /\ st = InitLocals
    /\ hist = InitHist

\* boyerMooreSearch(originalContent, currentSearchContent, lastProcessedIndex)
ExactMatch ==
    /\ matchResult = NoCall
    /\ matchResult' = [matcher |-> "ExactMatch",
                       range |-> ExactRange(originalContent, callSearch, callStart)]
    /\ UNCHANGED <<originalContent, callSearch, callStart, processorVars>>

LineTrimmedMatch ==
    /\ matchResult = NoCall
    /\ matchResult' = [matcher |-> "LineTrimmedMatch",
                       range |-> lineTrimmedFallbackMatch(originalContent, callSearch,
                                                          callStart)]
    /\ UNCHANGED <<originalContent, callSearch, callStart, processorVars>>

BlockAnchorMatch ==
    /\ matchResult = NoCall
    /\ matchResult' = [matcher |-> "BlockAnchorMatch",
                       range |-> blockAnchorFallbackMatch(originalContent, callSearch,
                                                          callStart)]
    /\ UNCHANGED <<originalContent, callSearch, callStart, processorVars>>

LineTrimmedMatchIndexed ==
    /\ matchResult = NoCall
    /\ matchResult' = [matcher |-> "LineTrimmedMatchIndexed",
                       range |-> lineTrimmedFallbackMatchIndexed(originalContent, callSearch,
                                                                 callStart)]
    /\ UNCHANGED <<originalContent, callSearch, callStart, processorVars>>

BlockAnchorMatchIndexed ==
    /\ matchResult = NoCall
    /\ matchResult' = [matcher |-> "BlockAnchorMatchIndexed",
                       range |-> blockAnchorFallbackMatchIndexed(originalContent, callSearch,
                                                                 callStart)]
    /\ UNCHANGED <<originalContent, callSearch, callStart, processorVars>>

MatcherNext ==
    \/ ExactMatch
    \/ LineTrimmedMatch
    \/ BlockAnchorMatch
    \/ LineTrimmedMatchIndexed
    \/ BlockAnchorMatchIndexed

MatcherSpec == MatcherInit /\ [][MatcherNext]_vars

(***************************************************************************)
(* Properties of the matchers.                                             *)
(***************************************************************************)
\* the first occurrence at or after cursor, found by trying every offset in turn
NaiveRange(text, pattern, cursor) ==
    LET i == IndexOfFrom(text, pattern, cursor)
    IN  IF i = -1 THEN NoMatch ELSE <<i, i + Len(pattern)>>

\* C18: ExactMatch correctness. For every text, non-empty pattern and start
\* position 0 <= cursor <= len(text), boyerMooreSearch returns the smallest
\* i >= cursor with text[i..i+len(pattern)] = pattern, and -1 only if there is
\* none: it agrees with a naive first-occurrence search.
C18_ExactMatchCorrect ==
    (matchResult.matcher = "ExactMatch" /\ Len(callSearch) > 0) =>
        matchResult.range = NaiveRange(originalContent, callSearch, callStart)

\* C19: no matcher returns a range that starts before the cursor. Every range
\* (start, end) returned by ExactMatch, LineTrimmedMatch or BlockAnchorMatch,
\* with or without a LineIndex, has start >= cursor.
C19_NoMatchBeforeCursor ==
    (matchResult.matcher # "none" /\ matchResult.range # NoMatch) =>
        matchResult.range[1] >= callStart

\* search content as the processor builds it: lines joined, with a final "\n"
IsSearchContent(content) == Len(content) > 0 /\ content[Len(content)] = NL

\* the content of a final call that, with the cursor at `cursor`, applies its
\* last block at `range` with the one replacement line "b"
EngineContent(original, cursor, range) ==
    LET s0 == [InitLocals EXCEPT !.lastProcessedIndex = cursor]
        s1 == OnContentLine(ApplyRange(s0, original, range), LineB)
    IN  AppendRemaining(OnReplaceMarker(s1), original).result

ExactFound ==
    /\ matchResult.matcher = "ExactMatch"
    /\ matchResult.range # NoMatch
    /\ IsSearchContent(callSearch)

\* C20: Exact and LineTrimmed agree when Exact succeeds. For every original,
\* search content and cursor for which ExactMatch finds a range, the content the
\* engine produces with that range is the content it would produce with
\* ExactMatch disabled and LineTrimmedMatch used.
C20_ExactAgreesWithLineTrimmed ==
    ExactFound =>
        LET trimmed == lineTrimmedFallbackMatch(originalContent, callSearch, callStart)
        IN  /\ trimmed # NoMatch
            /\ EngineContent(originalContent, callStart, matchResult.range)
                  = EngineContent(originalContent, callStart, trimmed)

\* C20 as amended: for the same first candidate, that is whenever
\* LineTrimmedMatch's range starts where ExactMatch's does, the two ranges are
\* equal and so is the content the engine produces with them.
C20_SameCandidateAgrees ==
    ExactFound =>
        LET trimmed == lineTrimmedFallbackMatch(originalContent, callSearch, callStart)
        IN  (trimmed # NoMatch /\ trimmed[1] = matchResult.range[1]) =>
                /\ trimmed = matchResult.range
                /\ EngineContent(originalContent, callStart, matchResult.range)
                      = EngineContent(originalContent, callStart, trimmed)

\* ExactMatch found a range past a cursor that is not 0, and LineTrimmedMatch
\* selects the same lines
C20_Witness ==
    /\ ExactFound
    /\ callStart > 0
    /\ matchResult.range[1] > callStart
    /\ lineTrimmedFallbackMatch(originalContent, callSearch, callStart) = matchResult.range


(***************************************************************************)
(* Properties of the parser states.  The parser is Idle when neither flag  *)
(* is set, in search mode when inSearch is set, in replace mode when only  *)
(* inReplace is set.                                                       *)
(***************************************************************************)
ParserIdle(s) == ~s.inSearch /\ ~s.inReplace
ParserInSearch(s) == s.inSearch
ParserInReplace(s) == s.inReplace /\ ~s.inSearch

\* the output and position state a discarded line has to leave alone
OutputOf(s) == <<s.lastProcessedIndex, s.result, s.resultLength, s.changedRegions>>

\* C21: Idle discards noise. While the parser is Idle every line other than
\* "<<<<<<< SEARCH" ("=======" and ">>>>>>> REPLACE" included) leaves it Idle
\* and leaves the cursor, result, resultLength and changedRegions unchanged.
C21_IdleDiscardsNoise ==
    [][ (InLoop /\ ParserIdle(st) /\ lines[lineNo] # SEARCH_MARKER
            /\ ~(lines[lineNo] = REPLACE_MARKER
                  /\ NoMoreSearchBlocks(diffContent, isFinal, lines[lineNo])))
          => /\ pc' # "error"
             /\ ParserIdle(st')
             /\ OutputOf(st') = OutputOf(st)
      ]_vars

\* C22: ">>>>>>> REPLACE" in search mode abandons the block: the parser is Idle
\* again with empty buffers, no region is recorded, and the cursor, result and
\* resultLength are unchanged.
C22_ReplaceInSearchAbandons ==
    [][ (InLoop /\ ParserInSearch(st) /\ lines[lineNo] = REPLACE_MARKER
            /\ ~NoMoreSearchBlocks(diffContent, isFinal, lines[lineNo]))
          => /\ ParserIdle(st')
             /\ st'.searchSegments = <<>>
             /\ st'.replaceSegments = <<>>
             /\ OutputOf(st') = OutputOf(st)
      ]_vars

\* C23: a second "=======" in replace mode is malformed: it does not run the
\* matchers again (no new range, no error), does not append
\* original[cursor..matchStart] a second time and does not restart the
\* replacement region.
C23_SecondSeparatorDiscarded ==
    [][ (InLoop /\ ParserInReplace(st) /\ lines[lineNo] = SEPARATOR_MARKER)
          => /\ pc' # "error"
             /\ st'.result = st.result
             /\ st'.resultLength = st.resultLength
             /\ st'.replacementStartOffset = st.replacementStartOffset
             /\ <<st'.searchMatchIndex, st'.searchEndIndex>>
                  = <<st.searchMatchIndex, st.searchEndIndex>>
      ]_vars

\* the block left open in replace mode by a following "<<<<<<< SEARCH"
OpenBlock == <<SEARCH_MARKER, LineA, SEPARATOR_MARKER, LineB>>

\* C24: "<<<<<<< SEARCH" in replace mode abandons the open block: no region is
\* recorded for it, the cursor is not advanced for it, and the final content
\* holds neither its replacement lines nor a second copy of the prefix, so a
\* final call on an open block followed by a well-formed block returns what the
\* well-formed block alone returns.
C24_SearchInReplaceAbandons ==
    (/\ pc \in {"done", "error"}
     /\ isFinal
     /\ Len(segments) = 2
     /\ segments[1] = OpenBlock
     /\ FindMatch(originalContent, SearchContentOf(<<LineA>>), 0) # NoMatch
     /\ IsWellFormedSeg(segments[2]))
      => LET alone == constructNewFileContent(DiffOf(<<segments[2]>>), originalContent, TRUE)
         IN  IF alone.outcome = "error" THEN pc = "error"
             ELSE /\ Returned
                  /\ st.result = alone.content
                  /\ st.changedRegions = alone.changedRegions

\* the index of the last "<<<<<<< SEARCH" among ls[1..i-1], 0 if there is none
LastSearchBefore(ls, i) ==
    LET found == {j \in 1..(i - 1) : ls[j] = SEARCH_MARKER}
    IN  IF found = {} THEN 0 ELSE CHOOSE j \in found : \A m \in found : m <= j

\* the lines received after the most recent SEARCH marker, before line i
SinceLastSearch(ls, i) == SubSeq(ls, LastSearchBefore(ls, i) + 1, i - 1)

\* C25: "<<<<<<< SEARCH" in search mode restarts the block. In search mode the
\* search buffer holds exactly the lines received after the most recent SEARCH
\* marker; a SEARCH marker in search mode empties it and stays in search mode;
\* the range taken at "=======" is the one of those lines alone; and neither the
\* marker nor the abandoned lines change the cursor, result, resultLength or
\* changedRegions.
C25_SearchInSearchRestarts ==
    [][ (InLoop /\ ParserInSearch(st))
          => /\ st.searchSegments = SinceLastSearch(lines, lineNo)
             /\ lines[lineNo] = SEARCH_MARKER
                  => /\ ParserInSearch(st')
                     /\ st'.searchSegments = <<>>
                     /\ OutputOf(st') = OutputOf(st)
             /\ ~IsMarker(lines[lineNo]) => OutputOf(st') = OutputOf(st)
             /\ (lines[lineNo] = SEPARATOR_MARKER /\ pc' = "loop")
                  => <<st'.searchMatchIndex, st'.searchEndIndex>>
                       = MatchRange([st EXCEPT !.searchSegments = SinceLastSearch(lines, lineNo)],
                                    originalContent)
      ]_vars

\* a block restarted after one search line and closed at once: the separator
\* took the empty-search range although the abandoned line alone would have
\* matched a shorter one
C25_Witness ==
    /\ pc = "loop"
    /\ lineNo >= 5
    /\ lines[lineNo - 4] = SEARCH_MARKER
    /\ ~IsMarker(lines[lineNo - 3])
    /\ lines[lineNo - 2] = SEARCH_MARKER
    /\ lines[lineNo - 1] = SEPARATOR_MARKER
    /\ ParserInReplace(st)
    /\ st.searchSegments = <<>>
    /\ <<st.searchMatchIndex, st.searchEndIndex>> = <<0, Len(originalContent)>>
    /\ FindMatch(originalContent, SearchContentOf(<<lines[lineNo - 3]>>), st.lastProcessedIndex)
         \notin {NoMatch, <<0, Len(originalContent)>>}

(***************************************************************************)
(* The same call on diffs whose lines can be blank or hold only            *)
(* whitespace: every sequence of up to MaxLines lines over the markers,    *)
(* "", " " and "a".                                                        *)
(***************************************************************************)
LineSp == <<SP>>

BlankLines == {SEARCH_MARKER, SEPARATOR_MARKER, REPLACE_MARKER, LineEmpty, LineSp, LineA}

BlankSegs == {<<l>> : l \in BlankLines}

BlankOriginals ==
    { <<>>, <<NL>>, <<"a", NL>>, <<SP, NL>>, <<"a", NL, NL>>, <<NL, "a", NL>> }

BlankInit ==
    /\ segments \in SeqsUpTo(BlankSegs, MaxLines)
    /\ originalContent \in BlankOriginals
    /\ diffContent = DiffOf(segments)
    /\ isFinal \in BOOLEAN
    /\ lines = <<>>
    /\ lineNo = 0
    /\ pc = "start"
    /\ st = InitLocals
    /\ hist = InitHist
    /\ callSearch = <<>>
    /\ callStart = 0
    /\ matchResult = NoCall

BlankSpec == BlankInit /\ [][Next]_vars

IsBlankLine(line) == Trim(line) = <<>>

NewlinePositions(text) == {q \in 1..Len(text) : text[q] = NL}

\* the number n of lines of a text
LineCountOf(text) == Cardinality(NewlinePositions(text)) + 1

\* offsetOfLine(i): the offset at which line i starts, line 0 at 0, every other
\* line after the i-th newline; offsetOfLine(n) is len(text)
OffsetOfLine(text, i) ==
    IF i = 0 THEN 0
    ELSE IF i >= LineCountOf(text) THEN Len(text)
    ELSE CHOOSE q \in NewlinePositions(text) :
             Cardinality({r \in NewlinePositions(text) : r <= q}) = i

\* the range (offsetOfLine(p), offsetOfLine(p+k)) of the k lines from line p
RangeOfLines(text, p, k) == <<OffsetOfLine(text, p), OffsetOfLine(text, p + k)>>

\* startLine: the first line whose start offset is >= cursor, n if there is none
StartLineOf(text, cursor) ==
    LET n == LineCountOf(text)
        at == {i \in 0..(n - 1) : OffsetOfLine(text, i) >= cursor}
    IN  IF at = {} THEN n ELSE CHOOSE i \in at : \A m \in at : i <= m

\* the lines of the search body: the search content split at "\n", without
\* the one trailing empty line
SearchBody(content) ==
    LET ls == Split(content)
    IN  IF ls[Len(ls)] = <<>> THEN SubSeq(ls, 1, Len(ls) - 1) ELSE ls

\* the smallest element of a non-empty set of line numbers
Smallest(ps) == CHOOSE p \in ps : \A q \in ps : p <= q

\* the lines p in [startLine, n-k] at which every search line equals the
\* original line after trimming both
TrimmedCandidates(text, body, cursor) ==
    LET ls == Split(text)
        k == Len(body)
    IN  {p \in StartLineOf(text, cursor)..(Len(ls) - k) :
            \A j \in 0..(k - 1) : Trim(ls[p + j + 1]) = Trim(body[j + 1])}

\* the lines p in [startLine, n-k] at which the first and the last search line
\* equal the original lines p and p+k-1 after trimming
AnchoredCandidates(text, body, cursor) ==
    LET ls == Split(text)
        k == Len(body)
    IN  {p \in StartLineOf(text, cursor)..(Len(ls) - k) :
            /\ Trim(ls[p + 1]) = Trim(body[1])
            /\ Trim(ls[p + k]) = Trim(body[k])}

\* C27: LineTrimmedMatch correctness (no index). With k >= 1 search lines after
\* dropping one trailing empty line, lineTrimmedFallbackMatch returns
\* (offsetOfLine(p), offsetOfLine(p+k)) for the smallest p in [startLine, n-k]
\* whose k lines equal the search lines after trimming, and no match exactly
\* when there is no such p (so the first/last-line pruning rejects no input
\* that has one).
C27_LineTrimmedCorrect ==
    (matchResult.matcher = "LineTrimmedMatch" /\ Len(SearchBody(callSearch)) >= 1) =>
        LET body == SearchBody(callSearch)
            cands == TrimmedCandidates(originalContent, body, callStart)
        IN  IF cands = {} THEN matchResult.range = NoMatch
            ELSE matchResult.range = RangeOfLines(originalContent, Smallest(cands), Len(body))

\* C28: BlockAnchorMatch correctness. For a search body of k >= 3 lines
\* blockAnchorFallbackMatch returns (offsetOfLine(p), offsetOfLine(p+k)) for the
\* smallest p in [startLine, n-k] whose lines p and p+k-1 equal the first and
\* the last search line after trimming, whatever lies between, and no match
\* exactly when there is no such p.
C28_BlockAnchorCorrect ==
    (matchResult.matcher = "BlockAnchorMatch" /\ Len(SearchBody(callSearch)) >= 3) =>
        LET body == SearchBody(callSearch)
            cands == AnchoredCandidates(originalContent, body, callStart)
        IN  IF cands = {} THEN matchResult.range = NoMatch
            ELSE matchResult.range = RangeOfLines(originalContent, Smallest(cands), Len(body))

\* C29: block-anchor minimum size. blockAnchorFallbackMatch, with or without a
\* LineIndex, returns no match whenever the search body, counted after
\* dropping the trailing empty line, has fewer than 3 lines.
C29_BlockAnchorMinimumSize ==
    (/\ matchResult.matcher \in {"BlockAnchorMatch", "BlockAnchorMatchIndexed"}
     /\ Len(SearchBody(callSearch)) < 3)
      => matchResult.range = NoMatch

\* C30: match ranges stay inside the original. Every range (start, end) that a
\* matcher returns satisfies 0 <= start <= end <= len(original); a line-based
\* match that takes in the last line of the original ends at len(original).
C30_RangesInsideOriginal ==
    (matchResult.matcher # "none" /\ matchResult.range # NoMatch) =>
        /\ 0 <= matchResult.range[1]
        /\ matchResult.range[1] <= matchResult.range[2]
        /\ matchResult.range[2] <= Len(originalContent)

(***************************************************************************)
(* Properties of the LineIndex.                                            *)
(***************************************************************************)
IndexedCall == matchResult.matcher \in {"LineTrimmedMatchIndexed", "BlockAnchorMatchIndexed"}

\* C31: LineIndex offsets. After construction from a text of n lines, for
\* every i < n the slice text[lineOffsets[i] .. lineOffsets[i+1]] is lines[i]
\* followed by at most one "\n", lineOffsets is non-decreasing, and
\* lineOffsets[n] is len(text).
C31_LineIndexOffsets ==
    IndexedCall =>
        LET index == buildIndex(originalContent)
            n == Len(index.lines)
            lineOffsets(i) == index.lineToOffset[i + 1]
        IN  /\ \A i \in 0..(n - 1) :
                  /\ Slice(originalContent, lineOffsets(i), lineOffsets(i + 1))
                       \in {index.lines[i + 1], index.lines[i + 1] \o <<NL>>}
                  /\ lineOffsets(i) <= lineOffsets(i + 1)
            /\ lineOffsets(n) = Len(originalContent)

\* C32: the LineIndex is only an accelerator. For every original, search
\* content and cursor, lineTrimmedFallbackMatch and blockAnchorFallbackMatch
\* return with a LineIndex what they return without one: the same range or no
\* match.
C32_IndexIsAccelerator ==
    /\ matchResult.matcher = "LineTrimmedMatchIndexed"
         => matchResult.range = lineTrimmedFallbackMatch(originalContent, callSearch, callStart)
    /\ matchResult.matcher = "BlockAnchorMatchIndexed"
         => matchResult.range = blockAnchorFallbackMatch(originalContent, callSearch, callStart)

(***************************************************************************)
(* Properties, continued.                                                  *)
(***************************************************************************)
\* C33: NoMatch error payload. The search content reported in the error is the
\* search body (the search lines joined by "\n", plus the appended "\n")
\* without exactly one trailing newline, that is the joined search lines with
\* their trailing blank lines and trailing spaces.
C33_ErrorPayload ==
    pc = "error" => hist.reported = Join(st.searchSegments)

\* C33 as amended: the search content reported in the error is the search body
\* without all of its trailing whitespace: it is the longest prefix of the
\* joined search lines that does not end in whitespace, so
\* trailing blank lines and trailing spaces are not reported; it is the body
\* without exactly one newline when the last search line ends in a
\* non-whitespace character.
C33_ErrorPayload_Amended ==
    pc = "error" =>
        LET joined == Join(st.searchSegments)
            reported == hist.reported
        IN  /\ IsPrefix(reported, joined)
            /\ Len(reported) > 0 => ~IsSpace(reported[Len(reported)])
            /\ \A i \in (Len(reported) + 1)..Len(joined) : IsSpace(joined[i])
            /\ (Len(joined) > 0 /\ ~IsSpace(joined[Len(joined)])) => reported = joined

\* a failed call whose search body ends in a blank line or a space, reported
\* without it
C33_Witness ==
    /\ pc = "error"
    /\ Len(hist.reported) > 0
    /\ hist.reported # Join(st.searchSegments)

\* lines without a SEARCH marker that may follow the last block of a diff
TrailingLines == {LineA, LineEmpty, SEPARATOR_MARKER, REPLACE_MARKER}

\* C34: early exit after the last block. In a final call on well-formed blocks
\* the REPLACE marker of the last block, after which no SEARCH marker occurs,
\* appends original[cursor..end] and returns at once: a line that follows it
\* changes neither the content nor changedRegions, for one block or more.
C34_EarlyExitAfterLastBlock ==
    (Returned /\ isFinal /\ AllWellFormed(segments)) =>
        \A t \in TrailingLines :
            LET r == constructNewFileContent(diffContent \o <<NL>> \o t, originalContent, TRUE)
            IN  /\ r.outcome = "ok"
                /\ r.content = st.result
                /\ r.changedRegions = st.changedRegions

\* the search content of a well-formed block: its search lines, each with "\n"
SearchTextOf(seg) == SearchContentOf(SubSeq(seg, 2, IndexOf(seg, <<SEPARATOR_MARKER>>)))

\* two well-formed blocks, both applied by the final call, the first range
\* ending before the second starts, and the search text of the second occurring
\* neither in the replacement of the first nor in the original before the
\* first range
SequentialCase ==
    /\ Returned
    /\ isFinal
    /\ Len(segments) = 2
    /\ AllWellFormed(segments)
    /\ Len(hist.applied) = 2
    /\ hist.applied[1].matchEnd <= hist.applied[2].matchStart
    /\ ~Includes(hist.applied[1].replacement, SearchTextOf(segments[2]))
    /\ ~Includes(Slice(originalContent, 0, hist.applied[1].matchStart), SearchTextOf(segments[2]))

\* the content of applying d2 (final) to the content of applying d1 (final)
SequentialResult(d1, d2, original) ==
    LET first == constructNewFileContent(d1, original, TRUE)
    IN  IF first.outcome = "error" THEN first
        ELSE constructNewFileContent(d2, first.content, TRUE)

SecondMatchAfterFirst ==
    LET first == constructNewFileContent(DiffOf(<<segments[1]>>), originalContent, TRUE)
        body == SubSeq(segments[2], 2, IndexOf(segments[2], <<SEPARATOR_MARKER>>))
    IN  IF first.outcome = "error" THEN NoMatch
        ELSE MatchRange([InitLocals EXCEPT !.searchSegments = body], first.content)

\* by how much the first block moves what follows it
FirstShift ==
    Len(hist.applied[1].replacement)
      - (Min(hist.applied[1].matchEnd, Len(originalContent)) - hist.applied[1].matchStart)

\* applied after d1, d2 matches the lines it matches in the original, moved by
\* the change of length that d1 made
SameLinesAfterFirst ==
    SecondMatchAfterFirst
      = <<hist.applied[2].matchStart + FirstShift, hist.applied[2].matchEnd + FirstShift>>

C36_ParserStateInvariant ==
    /\ ~(st.inSearch /\ st.inReplace)
    /\ ParserIdle(st) =>
          /\ st.searchSegments = <<>>
          /\ st.replaceSegments = <<>>
          /\ st.searchMatchIndex = -1
          /\ st.searchEndIndex = -1
          /\ st.replacementStartOffset = -1

\* the parser is Idle again after a block was closed and its region recorded,
\* with lines still to process
C36_Witness ==
    /\ InLoop
    /\ ParserIdle(st)
    /\ Len(st.changedRegions) > 0
    /\ lineNo > 1
    /\ lines[lineNo - 1] = REPLACE_MARKER

\* C37: output length accounting. At every point of processing up to
\* finalization resultLength is the length of the text held by the result
\* builder, so replacementStartOffset and endOffset are offsets into the
\* content built so far.
C37_OutputLengthAccounting ==
    pc = "loop" => st.resultLength = Len(st.result)

\* the slices of the original copied into the content are pairwise disjoint
\* and in increasing offset order
CopiedInOrder ==
    \A i \in 1..(Len(hist.copied) - 1) : hist.copied[i][2] <= hist.copied[i + 1][1]

\* no copied slice overlaps a range whose replacement lines were emitted
ReplacedNotCopied ==
    \A r \in hist.replaced :
        \A i \in 1..Len(hist.copied) :
            \/ hist.copied[i][2] <= r[1]
            \/ r[2] <= hist.copied[i][1]
            \/ r[1] >= r[2]

\* C38: no original range is emitted twice. In any call that returns a
\* result the slices of the original copied into the content are pairwise
\* disjoint and appear in increasing offset order, and a range matched by a
\* block whose replacement lines were emitted is not also copied.
C38_NoRangeEmittedTwice ==
    Returned => CopiedInOrder /\ ReplacedNotCopied

(***************************************************************************)
(* The call with the exact search run one iteration at a time.  At         *)
(* "=======" with a non-empty search content the processor enters          *)
(* boyerMooreSearch; callSearch is the pattern and callStart the offset    *)
(* of the main loop.                                                       *)
(***************************************************************************)
\* BMShift advancing by the textbook j - last(c) without the floor of 1
BMShift_Unfloored(text, pattern, offset) ==
    LET j == BMScan(text, pattern, offset, Len(pattern) - 1)
        c == CharAt(text, offset + j)
        occ == {i \in 0..(Len(pattern) - 1) : pattern[i + 1] = c}
        last == IF occ = {} THEN -1 ELSE CHOOSE i \in occ : \A k \in occ : k <= i
    IN  j - last

\* offset += Math.max(1, badCharShift) after a mismatch at j
BMShift(text, pattern, offset) ==
    LET j == BMScan(text, pattern, offset, Len(pattern) - 1)
    IN  Max(1, BadCharShift(pattern, CharAt(text, offset + j)))

InSearchLoop == pc = "search"

\* while (offset <= text.length - pattern.length)
BMLoopGuard == callStart <= Len(originalContent) - Len(callSearch)

\* "Pattern found": the right-to-left comparison ran through
BMFound ==
    BMLoopGuard /\ BMScan(originalContent, callSearch, callStart, Len(callSearch) - 1) < 0

\* "=======" with an empty search content: no matcher is called
SeparatorEmptySearch ==
    /\ SearchContentOf(st.searchSegments) = <<>>
    /\ Separator

\* "=======" with a non-empty search content: call boyerMooreSearch
BMStart ==
    /\ InLoop
    /\ lines[lineNo] = SEPARATOR_MARKER
    /\ SearchContentOf(st.searchSegments) # <<>>
    /\ callSearch' = SearchContentOf(st.searchSegments)
    /\ callStart' = st.lastProcessedIndex
    /\ pc' = "search"
    /\ UNCHANGED <<Inputs, matchResult, lines, lineNo, st, hist>>

\* one iteration of the main loop that does not return
BMStep ==
    /\ InSearchLoop
    /\ BMLoopGuard
    /\ ~BMFound
    /\ callStart' = callStart + BMShift(originalContent, callSearch, callStart)
    /\ UNCHANGED <<Inputs, callSearch, matchResult, processorVars>>

\* the range after boyerMooreSearch has returned: its match, or the fallbacks
RangeAfterSearch ==
    IF BMFound THEN <<callStart, callStart + Len(callSearch)>>
    ELSE LET lineMatch == lineTrimmedFallbackMatch(originalContent, callSearch,
                                                   st.lastProcessedIndex)
         IN  IF lineMatch # NoMatch THEN lineMatch
             ELSE blockAnchorFallbackMatch(originalContent, callSearch,
                                           st.lastProcessedIndex)

\* boyerMooreSearch has returned and a matcher found a range
SeparatorAfterSearch ==
    /\ InSearchLoop
    /\ BMFound \/ ~BMLoopGuard
    /\ RangeAfterSearch # NoMatch
    /\ st' = ApplyRange(st, originalContent, RangeAfterSearch)
    /\ lineNo' = lineNo + 1
    /\ pc' = "loop"
    /\ hist' = HistCopy([hist EXCEPT !.emitted = <<>>], originalContent,
                        st.lastProcessedIndex, RangeAfterSearch[1])
    /\ UNCHANGED <<Inputs, matcherVars, lines>>

\* boyerMooreSearch has returned -1 and both fallbacks failed: throw
SeparatorAfterSearchNoMatch ==
    /\ InSearchLoop
    /\ ~BMLoopGuard
    /\ RangeAfterSearch = NoMatch
    /\ pc' = "error"
    /\ hist' = [hist EXCEPT !.reported = ReportedSearch(callSearch)]
    /\ UNCHANGED <<Inputs, matcherVars, lines, lineNo, st>>

TermNext ==
    \/ EarlyExit
    \/ Prepare
    \/ SearchMarker
    \/ SeparatorEmptySearch
    \/ BMStart
    \/ BMStep
    \/ SeparatorAfterSearch
    \/ SeparatorAfterSearchNoMatch
    \/ ReplaceMarker
    \/ ReplaceMarkerLast
    \/ ContentLine
    \/ Finish

MaxTermLines == 3

\* diff lines: the markers, a content line, a blank line
TermLines == {SEARCH_MARKER, SEPARATOR_MARKER, REPLACE_MARKER, LineA, LineEmpty}

\* originals in which the search content is absent, first, or further on
TermOriginals == {<<>>, <<"a", NL>>, <<NL, "a", NL>>, <<NL, NL, "a", NL>>}

TermInit ==
    /\ segments \in {<<ls>> : ls \in SeqsUpTo(TermLines, MaxTermLines)}
    /\ originalContent \in TermOriginals
    /\ diffContent = DiffOf(segments)
    /\ isFinal \in BOOLEAN
    /\ lines = <<>>
    /\ lineNo = 0
    /\ pc = "start"
    /\ st = InitLocals
    /\ hist = InitHist
    /\ callSearch = <<>>
    /\ callStart = 0
    /\ matchResult = NoCall

\* the call runs to its end: one thread, every step taken as soon as it can be
TermSpec == TermInit /\ [][TermNext]_vars /\ WF_vars(TermNext)

Terminated == pc \in {"done", "error"}

\* the stepwise search returns what boyerMooreSearch and the matchers return
StepwiseAgrees ==
    (InSearchLoop /\ (BMFound \/ ~BMLoopGuard)) =>
        /\ RangeAfterSearch = MatchRange(st, originalContent)
        /\ (IF BMFound THEN callStart ELSE -1)
              = boyerMooreSearch(originalContent, callSearch, st.lastProcessedIndex)

\* C39: termination. For every diff, original and isFinal the call reaches a
\* result or the NoMatch error after finitely many steps, and every iteration
\* of the main loop of boyerMooreSearch advances the offset by at least 1.
C39_Termination ==
    /\ <>Terminated
    /\ [][(InSearchLoop /\ pc' = "search") => callStart' >= callStart + 1]_vars

\* the main loop has advanced past the start position and found the pattern
C39_Witness ==
    /\ InSearchLoop
    /\ callStart > st.lastProcessedIndex
    /\ BMFound
    /\ callStart > st.lastProcessedIndex + 1

=============================================================================
